---- MODULE Spec2Model ----
(***************************************************************************)
(* Model of the log-query tools of the AI DevOps assistant:                *)
(*   createQueryLogsTool      (live BigQuery tool)                         *)
(*   createQueryMockLogsTool  (mock tool over the in-memory mockLogs)      *)
(*                                                                         *)
(* A query string is a sequence of atoms.  An atom is a run of characters  *)
(* that the tools never look inside: the keyword "limit" (in lower or      *)
(* upper case), one white-space character, one decimal digit, the          *)
(* statement terminator, the keywords of the mock tool, and "x", a         *)
(* non-empty run of any other characters.                                  *)
(***************************************************************************)
EXTENDS Integers, Sequences, FiniteSets, TLC

VARIABLES USE_MOCK_DATA, useMockData, now, pc, query, sql, jobs, thrown,
          rows, limit, result, corpus, history, observed, http,
          input, messages, isLoading, error, request, calls

(* The state of the DevAssistantChat component *)
chatVars == <<input, messages, isLoading, error, request, calls>>

vars == <<USE_MOCK_DATA, useMockData, now, pc, query, sql, jobs, thrown,
          rows, limit, result, corpus, history, observed, http, chatVars>>

(***************************************************************************)
(* Bounds of the model                                                     *)
(***************************************************************************)
MaxChunks == 4
MaxToolChunks == 3
MaxDigits == 4
MaxNow == 1
ManyRows == 150
MaxMockChunks == 3
MaxUptime == 60
MaxCalls == 2

NoLimit == -1

(***************************************************************************)
(* String primitives                                                       *)
(***************************************************************************)
Digits == {"0", "1", "3", "5"}

DigitValue(c) ==
  CASE c = "0" -> 0 [] c = "1" -> 1 [] c = "3" -> 3 [] c = "5" -> 5

IsSpace(c) == c = " "

LowerAtom(c) ==
  CASE c = "LIMIT" -> "limit"
    [] c = "ERROR" -> "error"
    [] OTHER -> c

toLowerCase(s) == [i \in DOMAIN s |-> LowerAtom(s[i])]

includes(s, pat) ==
  \E i \in 1..(Len(s) - Len(pat) + 1) : SubSeq(s, i, i + Len(pat) - 1) = pat

RECURSIVE trimStart(_)
trimStart(s) ==
  IF s # <<>> /\ IsSpace(Head(s)) THEN trimStart(Tail(s)) ELSE s

RECURSIVE trimEnd(_)
trimEnd(s) ==
  IF s # <<>> /\ IsSpace(s[Len(s)]) THEN trimEnd(SubSeq(s, 1, Len(s) - 1)) ELSE s

trim(s) == trimEnd(trimStart(s))

endsWith(s, c) == s # <<>> /\ s[Len(s)] = c

RECURSIVE parseInt(_)
parseInt(ds) ==
  IF ds = <<>> THEN 0
  ELSE 10 * parseInt(SubSeq(ds, 1, Len(ds) - 1)) + DigitValue(ds[Len(ds)])

(* Index of the last atom of the maximal run of atoms satisfying the class *)
(* that starts at i (i - 1 when s[i] is not in the class).                 *)
RECURSIVE RunEnd(_, _, _)
RunEnd(s, i, space) ==
  IF i <= Len(s) /\ (IF space THEN IsSpace(s[i]) ELSE s[i] \in Digits)
  THEN RunEnd(s, i + 1, space)
  ELSE i - 1

(* /limit\s+(\d+)/i anchored at position i *)
LimitMatchesAt(s, i) ==
  /\ i \in DOMAIN s
  /\ LowerAtom(s[i]) = "limit"
  /\ RunEnd(s, i + 1, TRUE) >= i + 1
  /\ RunEnd(s, RunEnd(s, i + 1, TRUE) + 1, FALSE) >= RunEnd(s, i + 1, TRUE) + 1

LimitMatchPositions(s) == {i \in DOMAIN s : LimitMatchesAt(s, i)}

MatchRecord(s, i) ==
  LET spEnd == RunEnd(s, i + 1, TRUE)
      dEnd  == RunEnd(s, spEnd + 1, FALSE)
  IN [index |-> i, last |-> dEnd, digits |-> SubSeq(s, spEnd + 1, dEnd)]

(* String.prototype.match with the non-global pattern: the leftmost match *)
NoMatch == [index |-> 0, last |-> 0, digits |-> <<>>]

matchLimit(s) ==
  IF LimitMatchPositions(s) = {} THEN NoMatch
  ELSE MatchRecord(s, CHOOSE i \in LimitMatchPositions(s) :
                         \A j \in LimitMatchPositions(s) : i <= j)

(* String.prototype.replace with the non-global pattern: only the leftmost *)
(* match is replaced.                                                      *)
replaceLimit(s, repl) ==
  LET m == matchLimit(s)
  IN IF m = NoMatch THEN s
     ELSE SubSeq(s, 1, m.index - 1) \o repl \o SubSeq(s, m.last + 1, Len(s))

LIMIT50 == <<"LIMIT", " ", "5", "0">>

(***************************************************************************)
(* createQueryLogsTool: the two safety checks on the query                 *)
(***************************************************************************)
DefaultLimit == 50
MaxLimit == 100

EnsureLimit_Mut(q) ==
  IF ~ includes(q, <<"limit">>)
  THEN LET t == trim(q)
           u == IF endsWith(t, ";") THEN SubSeq(t, 1, Len(t) - 1) ELSE t
       IN u \o <<" ">> \o LIMIT50
  ELSE q

(* if (!query.toLowerCase().includes('limit')) { trim; drop ';'; += ' LIMIT 50' } *)
EnsureLimit(q) ==
  IF ~ includes(toLowerCase(q), <<"limit">>)
  THEN LET t == trim(q)
           u == IF endsWith(t, ";") THEN SubSeq(t, 1, Len(t) - 1) ELSE t
       IN u \o <<" ">> \o LIMIT50
  ELSE q

LimitTooHigh_Mut(n) == n >= MaxLimit

LimitTooHigh(n) == n > MaxLimit

(* const limitMatch = query.match(...); if (limit > 100) query.replace(...) *)
ReduceLimit(q) ==
  LET limitMatch == matchLimit(q)
  IN IF limitMatch # NoMatch /\ LimitTooHigh(parseInt(limitMatch.digits))
     THEN replaceLimit(q, LIMIT50)
     ELSE q

SanitizeQuery(q) == ReduceLimit(EnsureLimit(q))

(***************************************************************************)
(* Candidate queries: concatenations of at most n chunks                   *)
(***************************************************************************)
Chunks ==
  { <<"x">>, <<" ">>, <<";">>, <<"limit">>, <<"LIMIT", " ">>,
    <<"5">>, <<"5", "0">>, <<"1", "0", "0">>, <<"1", "0", "1">> }

RECURSIVE Concats(_, _)
Concats(C, n) ==
  IF n = 0 THEN {<<>>}
  ELSE LET P == Concats(C, n - 1)
       IN P \cup {p \o c : p \in P, c \in C}

MaxDigitRun(s) ==
  LET ends == {0} \cup {RunEnd(s, i, FALSE) - i + 1 : i \in DOMAIN s}
  IN CHOOSE m \in ends : \A k \in ends : k <= m

Queries == {q \in Concats(Chunks, MaxChunks) : MaxDigitRun(q) <= MaxDigits}

(* A timestamp is a number of minutes relative to the start of the process; *)
(* mockLogs is built at start, entry k being 5 * k minutes old.             *)
Log(minutesAgo, severity, service, trace_id) ==
  [timestamp |-> 0 - minutesAgo, severity |-> severity, service |-> service,
   trace_id |-> trace_id]

mockLogs ==
  << Log(5,  "ERROR",   <<"payment", "-service">>,  "trace-abc123"),
     Log(10, "ERROR",   <<"checkout", "-service">>, "trace-def456"),
     Log(15, "WARNING", <<"auth", "-service">>,     "trace-ghi789"),
     Log(20, "ERROR",   <<"payment", "-service">>,  "trace-jkl012"),
     Log(25, "ERROR",   <<"checkout", "-service">>, "trace-mno345"),
     Log(30, "ERROR",   <<"api-gateway">>,          "trace-pqr678"),
     Log(35, "WARNING", <<"database-proxy">>,       "trace-stu901"),
     Log(40, "ERROR",   <<"payment", "-service">>,  "trace-vwx234"),
     Log(45, "INFO",    <<"checkout", "-service">>, "trace-yza567"),
     Log(50, "ERROR",   <<"auth", "-service">>,     "trace-bcd890") >>

NoThrow ==
  [thrown |-> FALSE, isError |-> FALSE, cause |-> "none", message |-> <<>>,
   at |-> "none"]
NoResult == [type |-> "none"]
NoRequest ==
  [phase |-> "none", data |-> [type |-> "undefined", text |-> <<>>],
   tool |-> "none", failed |-> FALSE, status |-> 0,
   body |-> [result |-> <<"undefined">>, error |-> <<"undefined">>]]

(***************************************************************************)
(* SanSpec: the sanitizer as a function, applied to every candidate query  *)
(***************************************************************************)
(* The chat component after its first render *)
Message(role, content) == [role |-> role, content |-> content]

Greeting == Message("assistant", <<"Hi! I'm your AI DevOps Assistant">>)

Null == <<"null">>

NoFetch == [pending |-> FALSE, data |-> <<>>]

Idle ==
  /\ sql = <<>> /\ jobs = 0 /\ thrown = NoThrow /\ rows = <<>>
  /\ limit = NoLimit /\ result = NoResult
  /\ corpus = mockLogs /\ history = <<>> /\ observed = {} /\ http = NoRequest
  /\ input = <<>> /\ messages = <<Greeting>> /\ isLoading = FALSE
  /\ error = Null /\ request = NoFetch /\ calls = 0

SanInit ==
  /\ USE_MOCK_DATA = "false" /\ useMockData = FALSE /\ now = 0
  /\ pc = "input"
  /\ query \in Queries
  /\ Idle

Sanitize ==
  /\ pc = "input"
  /\ pc' = "sanitized"
  /\ sql' = SanitizeQuery(query)
  /\ UNCHANGED chatVars
  /\ UNCHANGED <<corpus, history, observed, http, USE_MOCK_DATA, useMockData,
                 now, query, jobs, thrown, rows, limit, result>>

SanNext == Sanitize

SanSpec == SanInit /\ [][SanNext]_vars

(***************************************************************************)
(* The log store (BigQuery), seen from the tool                            *)
(***************************************************************************)
FewRows == 3

Min(a, b) == IF a <= b THEN a ELSE b

(* The query with trailing white space and statement terminators removed *)
RECURSIVE StripTerminators(_)
StripTerminators(s) ==
  IF s # <<>> /\ (IsSpace(s[Len(s)]) \/ s[Len(s)] = ";")
  THEN StripTerminators(SubSeq(s, 1, Len(s) - 1))
  ELSE s

(* The row limit a submitted statement carries: the cap of the LIMIT clause *)
(* that ends the statement, NoLimit when the statement does not end in one. *)
StatementLimit(q) ==
  LET t == StripTerminators(q)
      P == {i \in LimitMatchPositions(t) : MatchRecord(t, i).last = Len(t)}
  IN IF P = {} THEN NoLimit
     ELSE parseInt(MatchRecord(t, CHOOSE i \in P : TRUE).digits)

(* Numbers of rows of the table that match the statement's conditions *)
MatchingRows == {0, FewRows, ManyRows}

(* job.getQueryResults(): the rows of a completed job, as row numbers *)
QueryResults(q, matching) ==
  LET n == IF StatementLimit(q) = NoLimit THEN matching
           ELSE Min(matching, StatementLimit(q))
  IN [i \in 1..n |-> i]

(* Values the BigQuery client rejects with: what went wrong (cause), whether *)
(* the value is an Error, and the words of its message.  A missing table is *)
(* reported by the store as an Error "Not found: Table ..."; the name of a  *)
(* table or column may put the word "permission" into any message, and a    *)
(* permission failure is worded "... does not have ... permission ..." or   *)
(* "Permission ... denied ...".                                             *)
Failure(isError, cause, message) ==
  [thrown |-> TRUE, isError |-> isError, cause |-> cause, message |-> message,
   at |-> "none"]

StoreFailures ==
  { Failure(TRUE, "missing-table", <<"Not found: Table", "x">>),
    Failure(TRUE, "missing-table", <<"Not found: Table", "permission">>),
    Failure(TRUE, "permission-denied", <<"Access Denied", "permission">>),
    Failure(TRUE, "permission-denied", <<"Access Denied", "Permission">>),
    Failure(TRUE, "other", <<"Syntax error">>),
    Failure(TRUE, "other", <<"Unrecognized name", "permission">>),
    Failure(FALSE, "other", <<"x">>) }

(***************************************************************************)
(* createQueryLogsTool: result envelopes and the catch block               *)
(***************************************************************************)
Undefined == <<"undefined">>

Envelope(rowCount, data, message) ==
  [type |-> "result", rowCount |-> rowCount, data |-> data, message |-> message]

ErrorEnvelope(errorText, hint, details) ==
  [type |-> "error", error |-> errorText, hint |-> hint, details |-> details]

SuccessResult(rs) ==
  IF Len(rs) = 0
  THEN Envelope(0, <<>>, <<"No logs found matching the query criteria.">>)
  ELSE Envelope(Len(rs), rs, Undefined)

(* A TypeError leaves the tool: the invocation raises to its caller *)
Raised == [type |-> "raised"]

(* error.message of a value that is not an Error is undefined *)
ErrorMessage_Mut(e) == IF e.isError THEN e.message ELSE Undefined

(* error instanceof Error ? error.message : 'Unknown error' *)
ErrorMessage(e) == IF e.isError THEN e.message ELSE <<"Unknown error">>

catchError_Mut(e) ==
  LET errorMessage == ErrorMessage(e)
  IN IF errorMessage = Undefined THEN Raised
     ELSE IF includes(errorMessage, <<"permission">>)
     THEN ErrorEnvelope(<<"Permission denied">>,
                        <<"Grant roles/bigquery.jobUser and roles/logging.viewer">>,
                        errorMessage)
     ELSE IF includes(errorMessage, <<"Not found: Table">>)
     THEN ErrorEnvelope(<<"Log Analytics table not found">>,
                        <<"Upgrade _Default bucket to Log Analytics">>,
                        errorMessage)
     ELSE ErrorEnvelope(<<"Error querying logs">>, Undefined, errorMessage)

(* The catch block; errorMessage.includes(...) of undefined is a TypeError *)
catchError(e) ==
  LET errorMessage == ErrorMessage(e)
  IN IF errorMessage = Undefined THEN Raised
     ELSE IF includes(errorMessage, <<"Not found: Table">>)
     THEN ErrorEnvelope(<<"Log Analytics table not found">>,
                        <<"Upgrade _Default bucket to Log Analytics">>,
                        errorMessage)
     ELSE IF includes(errorMessage, <<"permission">>)
     THEN ErrorEnvelope(<<"Permission denied">>,
                        <<"Grant roles/bigquery.jobUser and roles/logging.viewer">>,
                        errorMessage)
     ELSE ErrorEnvelope(<<"Error querying logs">>, Undefined, errorMessage)

AfterCatch_Mut == "invoked"

(* Where control goes when the catch block has run: the tool returns *)
AfterCatch == "done"

(***************************************************************************)
(* createQueryMockLogsTool                                                 *)
(***************************************************************************)
FilterSeverity_Mut(logs, queryLower) ==
  LET IsError(log) == log.severity = "ERROR"
      IsWarning(log) == log.severity = "WARNING"
  IN IF includes(queryLower, <<"warning">>) THEN SelectSeq(logs, IsWarning)
     ELSE IF includes(queryLower, <<"error">>) THEN SelectSeq(logs, IsError)
     ELSE logs

FilterSeverity(logs, queryLower) ==
  LET IsError(log) == log.severity = "ERROR"
      IsWarning(log) == log.severity = "WARNING"
  IN IF includes(queryLower, <<"error">>) THEN SelectSeq(logs, IsError)
     ELSE IF includes(queryLower, <<"warning">>) THEN SelectSeq(logs, IsWarning)
     ELSE logs

FilterService_Mut(logs, queryLower) ==
  LET IsPayment(log) == includes(log.service, <<"payment">>)
      IsCheckout(log) == includes(log.service, <<"checkout">>)
      IsAuth(log) == includes(log.service, <<"auth">>)
  IN IF includes(queryLower, <<"checkout">>) THEN SelectSeq(logs, IsCheckout)
     ELSE IF includes(queryLower, <<"payment">>) THEN SelectSeq(logs, IsPayment)
     ELSE IF includes(queryLower, <<"auth">>) THEN SelectSeq(logs, IsAuth)
     ELSE logs

FilterService(logs, queryLower) ==
  LET IsPayment(log) == includes(log.service, <<"payment">>)
      IsCheckout(log) == includes(log.service, <<"checkout">>)
      IsAuth(log) == includes(log.service, <<"auth">>)
  IN IF includes(queryLower, <<"payment">>) THEN SelectSeq(logs, IsPayment)
     ELSE IF includes(queryLower, <<"checkout">>) THEN SelectSeq(logs, IsCheckout)
     ELSE IF includes(queryLower, <<"auth">>) THEN SelectSeq(logs, IsAuth)
     ELSE logs

FilterTime_Mut(logs, queryLower, t) ==
  LET After30(log) == log.timestamp >= t - 30
      After60(log) == log.timestamp >= t - 60
  IN IF includes(queryLower, <<"3", "0", " ", "minute">>) THEN SelectSeq(logs, After30)
     ELSE IF includes(queryLower, <<"1", " ", "hour">>) THEN SelectSeq(logs, After60)
     ELSE logs

FilterTime(logs, queryLower, t) ==
  LET After30(log) == log.timestamp > t - 30
      After60(log) == log.timestamp > t - 60
  IN IF includes(queryLower, <<"3", "0", " ", "minute">>) THEN SelectSeq(logs, After30)
     ELSE IF includes(queryLower, <<"1", " ", "hour">>) THEN SelectSeq(logs, After60)
     ELSE logs

MockLimit(queryLower) ==
  LET limitMatch == matchLimit(queryLower)
  IN IF limitMatch # NoMatch THEN parseInt(limitMatch.digits) ELSE DefaultLimit

slice_Mut(logs, n) == SubSeq(logs, 1, Min(n, Len(logs)) - 1)

slice(logs, n) == SubSeq(logs, 1, Min(n, Len(logs)))

(* Array.prototype.sort (stable) with the comparator b.timestamp - a.timestamp *)
RECURSIVE InsertDesc(_, _)
InsertDesc(sorted, log) ==
  IF sorted = <<>> THEN <<log>>
  ELSE IF Head(sorted).timestamp >= log.timestamp
       THEN <<Head(sorted)>> \o InsertDesc(Tail(sorted), log)
       ELSE <<log>> \o sorted

RECURSIVE sortDesc(_)
sortDesc(logs) ==
  IF logs = <<>> THEN <<>>
  ELSE InsertDesc(sortDesc(SubSeq(logs, 1, Len(logs) - 1)), logs[Len(logs)])

(* The handler's array filteredLogs at the return, from the content of     *)
(* mockLogs that [...mockLogs] copies                                      *)
MockFilteredLogsOf(logs, q, t) ==
  LET queryLower == toLowerCase(q)
      filtered == FilterTime(FilterService(FilterSeverity(logs, queryLower),
                                           queryLower), queryLower, t)
  IN sortDesc(slice(filtered, MockLimit(queryLower)))

MockFilteredLogs_Mut(q, t) == MockFilteredLogsOf(corpus, q, 0)

MockFilteredLogs(q, t) == MockFilteredLogsOf(corpus, q, t)

MockLogsAfter_Mut(logs, q, t) == FilterSeverity(logs, toLowerCase(q))

(* The content of mockLogs after the handler: spread, filter and slice     *)
(* build new arrays and sort reorders the slice, never mockLogs itself     *)
MockLogsAfter(logs, q, t) == logs

MockResult(logs) == [type |-> "array", data |-> logs]

(***************************************************************************)
(* Spec: the process, one tool invocation at a time                        *)
(***************************************************************************)
EnvValues == {"true", "false", "TRUE"}

ToolChunks ==
  Chunks \cup { <<"error">>, <<"payment">>, <<"3", "0", " ", "minute">> }

ToolQueries ==
  {q \in Concats(ToolChunks, MaxToolChunks) : MaxDigitRun(q) <= MaxDigits}

ConfigUseMockData_Mut(env) == env # "false"

(* useMockData: process.env.USE_MOCK_DATA === 'true' *)
ConfigUseMockData(env) == env = "true"

Init ==
  /\ USE_MOCK_DATA \in EnvValues
  /\ useMockData = ConfigUseMockData(USE_MOCK_DATA)
  /\ now = 0
  /\ pc = "idle"
  /\ query = <<>>
  /\ Idle

(* Time passes *)
Tick ==
  /\ now < MaxNow
  /\ now' = now + 1
  /\ UNCHANGED chatVars
  /\ UNCHANGED <<corpus, history, observed, http, USE_MOCK_DATA, useMockData,
                 pc, query, sql, jobs, thrown, rows, limit, result>>

(* The model calls the tool with a query of its choice *)
Invoke ==
  /\ pc = "idle"
  /\ pc' = "invoked"
  /\ \E q \in ToolQueries : query' = q
  /\ UNCHANGED chatVars
  /\ UNCHANGED <<corpus, history, observed, http, USE_MOCK_DATA, useMockData,
                 now, sql, jobs, thrown, rows, limit, result>>

(* The mock tool runs to its return without suspending *)
QueryMockLogs ==
  /\ pc = "invoked"
  /\ useMockData
  /\ limit' = MockLimit(toLowerCase(query))
  /\ result' = MockResult(MockFilteredLogs(query, now))
  /\ corpus' = MockLogsAfter(corpus, query, now)
  /\ pc' = "done"
  /\ UNCHANGED chatVars
  /\ UNCHANGED <<history, observed, http, USE_MOCK_DATA, useMockData, now,
                 query, sql, jobs, thrown, rows>>

(* The live tool: safety checks, then bigquery.createQueryJob(options) *)
QueryLogs ==
  /\ pc = "invoked"
  /\ ~ useMockData
  /\ sql' = SanitizeQuery(query)
  /\ jobs' = jobs + 1
  /\ pc' = "createQueryJob"
  /\ UNCHANGED chatVars
  /\ UNCHANGED <<corpus, history, observed, http, USE_MOCK_DATA, useMockData,
                 now, query, thrown, rows, limit, result>>

JobCreated ==
  /\ pc = "createQueryJob"
  /\ pc' = "getQueryResults"
  /\ UNCHANGED chatVars
  /\ UNCHANGED <<corpus, history, observed, http, USE_MOCK_DATA, useMockData,
                 now, query, sql, jobs, thrown, rows, limit, result>>

GotQueryResults(matching) ==
  /\ pc = "getQueryResults"
  /\ rows' = QueryResults(sql, matching)
  /\ result' = SuccessResult(rows')
  /\ pc' = "done"
  /\ UNCHANGED chatVars
  /\ UNCHANGED <<corpus, history, observed, http, USE_MOCK_DATA, useMockData,
                 now, query, sql, jobs, thrown, limit>>

(* createQueryJob or getQueryResults rejects: the catch block runs *)
Rejected(e) ==
  /\ pc \in {"createQueryJob", "getQueryResults"}
  /\ thrown' = [e EXCEPT !.at = pc]
  /\ result' = catchError(e)
  /\ pc' = IF result' = Raised THEN "raised" ELSE AfterCatch
  /\ UNCHANGED chatVars
  /\ UNCHANGED <<corpus, history, observed, http, USE_MOCK_DATA, useMockData,
                 now, query, sql, jobs, rows, limit>>

(* The returned string reaches the caller; the invocation's locals are gone *)
Return ==
  /\ pc = "done"
  /\ pc' = "idle"
  /\ query' = <<>> /\ sql' = <<>> /\ jobs' = 0 /\ thrown' = NoThrow
  /\ rows' = <<>> /\ limit' = NoLimit /\ result' = NoResult
  /\ UNCHANGED chatVars
  /\ UNCHANGED <<corpus, history, observed, http, USE_MOCK_DATA, useMockData,
                 now>>

Next ==
  \/ Tick
  \/ Invoke
  \/ QueryMockLogs
  \/ QueryLogs
  \/ JobCreated
  \/ \E m \in MatchingRows : GotQueryResults(m)
  \/ \E e \in StoreFailures : Rejected(e)
  \/ Return

Spec == Init /\ [][Next]_vars

(***************************************************************************)
(* MockSpec: a process started with USE_MOCK_DATA=true, any sequence of    *)
(* invocations of the mock tool while time passes                          *)
(***************************************************************************)
(* The entries of mockLogs are 5 minutes apart *)
LogSpacing == 5

MockChunks ==
  { <<"x">>, <<"error">>, <<"warning">>, <<"payment">>, <<"checkout">>,
    <<"auth">>, <<"3", "0", " ", "minute">>, <<"1", " ", "hour">>,
    <<"limit", " ", "3">> }

MockQueries ==
  {q \in Concats(MockChunks, MaxMockChunks) : MaxDigitRun(q) <= MaxDigits}

MockInit ==
  /\ USE_MOCK_DATA = "true"
  /\ useMockData = ConfigUseMockData(USE_MOCK_DATA)
  /\ now = 0
  /\ pc = "idle"
  /\ query = <<>>
  /\ Idle

(* Time passes.  Every timestamp of mockLogs is a multiple of LogSpacing   *)
(* and the recency tests are strict, so an instant between two multiples   *)
(* filters like the multiple before it.                                    *)
Elapse ==
  /\ now + LogSpacing <= MaxUptime
  /\ now' = now + LogSpacing
  /\ UNCHANGED chatVars
  /\ UNCHANGED <<corpus, history, observed, http, USE_MOCK_DATA, useMockData,
                 pc, query, sql, jobs, thrown, rows, limit, result>>

(* The model calls the mock tool with a query it has not asked before *)
Ask ==
  /\ pc = "idle"
  /\ history = <<>>
  /\ pc' = "invoked"
  /\ \E q \in MockQueries : query' = q
  /\ UNCHANGED chatVars
  /\ UNCHANGED <<corpus, history, observed, http, USE_MOCK_DATA, useMockData,
                 now, sql, jobs, thrown, rows, limit, result>>

MockNext ==
  \/ Elapse
  \/ Ask
  \/ QueryMockLogs
  \/ Return

MockSpec == MockInit /\ [][MockNext]_vars

(***************************************************************************)
(* RepeatSpec: as MockSpec, the caller keeping the last output it received *)
(* and asking the same query again                                         *)
(***************************************************************************)
TraceIds(logs) == {logs[i].trace_id : i \in DOMAIN logs}

(* The model calls the mock tool again with the query of the output it holds *)
AskAgain ==
  /\ pc = "idle"
  /\ history # <<>>
  /\ pc' = "invoked"
  /\ query' = history[1].query
  /\ UNCHANGED chatVars
  /\ UNCHANGED <<corpus, history, observed, http, USE_MOCK_DATA, useMockData,
                 now, sql, jobs, thrown, rows, limit, result>>

(* The returned string reaches the caller, which keeps it as evidence *)
Receive ==
  /\ pc = "done"
  /\ pc' = "idle"
  /\ history' = << [query |-> query, traces |-> TraceIds(result.data)] >>
  /\ query' = <<>> /\ sql' = <<>> /\ jobs' = 0 /\ thrown' = NoThrow
  /\ rows' = <<>> /\ limit' = NoLimit /\ result' = NoResult
  /\ UNCHANGED chatVars
  /\ UNCHANGED <<corpus, observed, http, USE_MOCK_DATA, useMockData, now>>

RepeatNext ==
  \/ Elapse
  \/ Ask
  \/ AskAgain
  \/ QueryMockLogs
  \/ Receive

RepeatSpec == MockInit /\ [][RepeatNext]_vars

(***************************************************************************)
(* HttpSpec: the Express server, GET /health and POST /devAssistant, the   *)
(* assistant flow and the tool calls the model makes during ai.generate    *)
(***************************************************************************)
(* Values of req.body.data *)
DataValues ==
  { [type |-> "undefined", text |-> <<>>],
    [type |-> "number", text |-> <<"0">>],
    [type |-> "number", text |-> <<"5">>],
    [type |-> "string", text |-> <<>>],
    [type |-> "string", text |-> <<"x">>],
    [type |-> "string", text |-> <<"error", "x">>] }

(* !data *)
Falsy(v) ==
  \/ v.type = "undefined"
  \/ v.type = "string" /\ v.text = <<>>
  \/ v.type = "number" /\ v.text = <<"0">>

(* !data || typeof data !== 'string' *)
InvalidData(v) == Falsy(v) \/ v.type # "string"

ModeName(mock) == IF mock THEN "mock" ELSE "production"

Response(status, text, errorText) ==
  [status |-> status, body |-> [result |-> text, error |-> errorText]]

(* Texts the model answers with, and values ai.generate rejects with *)
Texts == { <<>>, <<"x">> }

GenerateFailures ==
  { Failure(TRUE, "other", <<"API key not valid">>),
    Failure(FALSE, "other", <<"x">>) }

FlowQueries == { <<"x">>, <<"error", "x">>, <<"limit">> }

FlowResult(text) == [returned |-> TRUE, text |-> text, thrown |-> NoThrow]

FlowCatch_Mut(e) == [returned |-> FALSE, text |-> Undefined, thrown |-> e]

(* The catch block of devAssistantFlow: the failure becomes the answer *)
FlowCatch(e) ==
  FlowResult(<<"I encountered an error while processing your request">>
             \o ErrorMessage(e))

(* app.post('/devAssistant'): what is sent once the flow has settled *)
Respond(outcome) ==
  IF outcome.returned
  THEN Response(200, outcome.text, Undefined)
  ELSE Response(500, Undefined, <<"Internal server error">>)

(* GET /health *)
Health ==
  /\ observed' = observed \cup {[by |-> "health", mode |-> ModeName(useMockData)]}
  /\ UNCHANGED chatVars
  /\ UNCHANGED <<corpus, history, http, USE_MOCK_DATA, useMockData, now, pc,
                 query, sql, jobs, thrown, rows, limit, result>>

(* POST /devAssistant: the body is validated, the flow selects its tool and *)
(* calls ai.generate                                                        *)
Post ==
  /\ http.phase = "none"
  /\ \E v \in DataValues :
       IF InvalidData(v)
       THEN /\ http' = [http EXCEPT !.phase = "responded", !.data = v,
                          !.status = 400,
                          !.body = [result |-> Undefined,
                                    error |-> <<"Invalid request">>]]
            /\ UNCHANGED observed
       ELSE /\ http' = [http EXCEPT !.phase = "generate", !.data = v,
                          !.tool = ModeName(useMockData)]
            /\ observed' = observed \cup
                 {[by |-> "flow", mode |-> ModeName(useMockData)]}
  /\ UNCHANGED chatVars
  /\ UNCHANGED <<corpus, history, USE_MOCK_DATA, useMockData, now, pc, query,
                 sql, jobs, thrown, rows, limit, result>>

(* During ai.generate the model calls the tool the flow passed to it *)
FlowInvoke ==
  /\ http.phase = "generate"
  /\ pc = "idle"
  /\ pc' = "invoked"
  /\ \E q \in FlowQueries : query' = q
  /\ UNCHANGED chatVars
  /\ UNCHANGED <<corpus, history, observed, http, USE_MOCK_DATA, useMockData,
                 now, sql, jobs, thrown, rows, limit, result>>

(* ai.generate resolves: the flow returns llmResponse.text *)
GenerateReturns ==
  /\ http.phase = "generate"
  /\ pc = "idle"
  /\ \E text \in Texts :
       http' = [http EXCEPT !.phase = "responded", !.failed = FALSE,
                  !.status = Respond(FlowResult(text)).status,
                  !.body = Respond(FlowResult(text)).body]
  /\ UNCHANGED chatVars
  /\ UNCHANGED <<corpus, history, observed, USE_MOCK_DATA, useMockData, now,
                 pc, query, sql, jobs, thrown, rows, limit, result>>

(* ai.generate rejects: the flow's catch block runs *)
GenerateThrows ==
  /\ http.phase = "generate"
  /\ pc = "idle"
  /\ \E e \in GenerateFailures :
       http' = [http EXCEPT !.phase = "responded", !.failed = TRUE,
                  !.status = Respond(FlowCatch(e)).status,
                  !.body = Respond(FlowCatch(e)).body]
  /\ UNCHANGED chatVars
  /\ UNCHANGED <<corpus, history, observed, USE_MOCK_DATA, useMockData, now,
                 pc, query, sql, jobs, thrown, rows, limit, result>>

(* The response has left; the server waits for the next request *)
Close ==
  /\ http.phase = "responded"
  /\ http' = NoRequest
  /\ UNCHANGED chatVars
  /\ UNCHANGED <<corpus, history, observed, USE_MOCK_DATA, useMockData, now,
                 pc, query, sql, jobs, thrown, rows, limit, result>>

HttpNext ==
  \/ Health
  \/ Post
  \/ FlowInvoke
  \/ QueryMockLogs
  \/ QueryLogs
  \/ JobCreated
  \/ \E m \in MatchingRows : GotQueryResults(m)
  \/ \E e \in StoreFailures : Rejected(e)
  \/ Return
  \/ GenerateReturns
  \/ GenerateThrows
  \/ Close

HttpSpec == Init /\ [][HttpNext]_vars

(***************************************************************************)
(* ChatSpec: the DevAssistantChat component and the fetch it awaits        *)
(***************************************************************************)
serverVars ==
  <<USE_MOCK_DATA, useMockData, now, pc, query, sql, jobs, thrown, rows,
    limit, result, corpus, history, observed, http>>

(* What the operator types, and the sample queries offered as buttons *)
Inputs == { <<>>, <<" ">>, <<"x">>, <<" ", "x">> }

SAMPLE_QUERIES ==
  { <<"error", "x">>, <<"checkout", "3", "0", " ", "minute">> }

(* const textToSend = messageText || input *)
TextToSend(messageText, inputText) ==
  IF messageText \in {Undefined, <<>>} THEN inputText ELSE messageText

(* !textToSend.trim() *)
Blank(text) == trim(text) = <<>>

(* How the awaited fetch settles: a response with a status and a JSON body  *)
(* that may lack result, a response whose body is not JSON, or a rejection  *)
Outcome(kind, status, text) == [kind |-> kind, status |-> status, result |-> text]

Responses ==
  { Outcome("json", 200, <<"x">>), Outcome("json", 200, <<>>),
    Outcome("json", 200, Undefined), Outcome("json", 400, Undefined),
    Outcome("json", 500, Undefined), Outcome("notjson", 200, Undefined) }

Rejections == { Outcome("rejected", 0, Undefined) }

(* The message of the Error thrown inside the try block, Null when none is *)
ThrownMessage(o) ==
  IF o.kind = "rejected" THEN <<"Failed to fetch">>
  ELSE IF o.status \notin 200..299 THEN <<"HTTP", ToString(o.status)>>
  ELSE IF o.kind = "notjson" THEN <<"Unexpected token">>
  ELSE Null

(* data.result || 'No response received' *)
AnswerContent(o) ==
  IF o.result \in {Undefined, <<>>} THEN <<"No response received">>
  ELSE o.result

(* The assistant message appended by the try block or by the catch block *)
AssistantMessage(o) ==
  IF ThrownMessage(o) = Null
  THEN Message("assistant", AnswerContent(o))
  ELSE Message("assistant",
               <<"Error connecting to assistant">> \o ThrownMessage(o))

IsLoadingAfter_Mut(o) == ThrownMessage(o) # Null

(* finally { setIsLoading(false) } *)
IsLoadingAfter(o) == FALSE

(* sendMessage up to its await *)
sendMessage(messageText) ==
  LET textToSend == TextToSend(messageText, input)
  IN /\ calls < MaxCalls
     /\ calls' = calls + 1
     /\ IF Blank(textToSend)
        THEN UNCHANGED <<input, messages, isLoading, error, request>>
        ELSE /\ messages' = Append(messages, Message("user", textToSend))
             /\ input' = <<>>
             /\ isLoading' = TRUE
             /\ error' = Null
             /\ request' = [pending |-> TRUE, data |-> textToSend]
     /\ UNCHANGED serverVars

(* sendMessage after its await: try, catch and finally *)
Settled(o) ==
  /\ messages' = Append(messages, AssistantMessage(o))
  /\ error' = IF ThrownMessage(o) = Null THEN error ELSE ThrownMessage(o)
  /\ isLoading' = IsLoadingAfter(o)
  /\ request' = NoFetch
  /\ UNCHANGED <<input, calls>>
  /\ UNCHANGED serverVars

(* onChange of the text field, which is disabled while loading *)
Type ==
  /\ ~ isLoading
  /\ \E text \in Inputs : input' = text
  /\ UNCHANGED <<messages, isLoading, error, request, calls>>
  /\ UNCHANGED serverVars

(* A sample query button, disabled while loading *)
UseSampleQuery ==
  /\ ~ isLoading
  /\ \E q \in SAMPLE_QUERIES : input' = q
  /\ UNCHANGED <<messages, isLoading, error, request, calls>>
  /\ UNCHANGED serverVars

(* The Send button, disabled while loading or when the input is blank *)
ClickSend ==
  /\ ~ (isLoading \/ Blank(input))
  /\ sendMessage(Undefined)

(* Enter in the text field, which is disabled while loading *)
PressEnter ==
  /\ ~ isLoading
  /\ sendMessage(Undefined)

FetchResolves ==
  /\ request.pending
  /\ \E o \in Responses : Settled(o)

FetchRejects ==
  /\ request.pending
  /\ \E o \in Rejections : Settled(o)

ChatNext ==
  \/ Type
  \/ UseSampleQuery
  \/ ClickSend
  \/ PressEnter
  \/ FetchResolves
  \/ FetchRejects

(* A fetch that was started settles: it resolves or it rejects *)
ChatSpec ==
  MockInit /\ [][ChatNext]_vars /\ WF_vars(FetchResolves \/ FetchRejects)

(***************************************************************************)
(* Properties of the sanitizer (SanSpec)                                   *)
(***************************************************************************)
(* All limiting clauses of a query, left to right, as their declared caps *)
RECURSIVE CapsFrom(_, _)
CapsFrom(s, i) ==
  IF i > Len(s) THEN <<>>
  ELSE IF LimitMatchesAt(s, i)
       THEN <<parseInt(MatchRecord(s, i).digits)>>
            \o CapsFrom(s, MatchRecord(s, i).last + 1)
       ELSE CapsFrom(s, i + 1)

Caps(s) == CapsFrom(s, 1)

(* C1: a query without a limiting clause is sanitized into a query with     *)
(* exactly one limiting clause, and that clause caps the result at 50.      *)
C1_OneLimit50 ==
  (pc = "sanitized" /\ Caps(query) = <<>>) => Caps(sql) = <<DefaultLimit>>

(* C2: when the query has a limiting clause whose cap exceeds 100, no       *)
(* limiting clause of the sanitized query declares a cap above 100.         *)
C2_NoCapAbove100 ==
  (pc = "sanitized" /\ \E i \in DOMAIN Caps(query) : Caps(query)[i] > MaxLimit)
    => \A i \in DOMAIN Caps(sql) : Caps(sql)[i] <= MaxLimit

BeforeAppended(s) == SubSeq(s, 1, Len(s) - Len(<<" ">> \o LIMIT50))

(* C19: when a limiting clause is appended, every trailing statement          *)
(* terminator, with the white space around it, has been stripped: what        *)
(* stands before the appended clause does not end in ';'.                     *)
C19_NoTerminatorBeforeLimit ==
  (pc = "sanitized" /\ ~ includes(toLowerCase(query), <<"limit">>)) =>
     /\ SubSeq(sql, Len(sql) - Len(LIMIT50), Len(sql)) = <<" ">> \o LIMIT50
     /\ ~ endsWith(trimEnd(BeforeAppended(sql)), ";")

(* C22: the sanitizer is idempotent: applying its two rules to the query    *)
(* it produced gives that query back.                                        *)
C22_Idempotent ==
  pc = "sanitized" => SanitizeQuery(sql) = sql

C22_Witness ==
  /\ pc = "sanitized"
  /\ query = <<"x", ";", "LIMIT", " ", "1", "0", "1">>
  /\ sql = <<"x", ";", "LIMIT", " ", "5", "0">>
  /\ SanitizeQuery(sql) = sql

(***************************************************************************)
(* Properties of the tools (Spec)                                          *)
(***************************************************************************)
Returned == pc = "done"

(* C4: on either backend a returned result never has more rows than the    *)
(* enforced row cap, which is at most 100.                                  *)
C4_RowsWithinCap ==
  (Returned /\ result.type \in {"result", "array"}) =>
     /\ Len(result.data) <= MaxLimit
     /\ useMockData => Len(result.data) <= limit

(* C5: the mock tool executes a query as the sanitizer's rules require: with *)
(* cap 50 when the query has no limiting clause and with cap 50 when the     *)
(* query declares a cap above 100.                                           *)
C5_MockSanitized ==
  (Returned /\ useMockData) =>
     /\ Caps(query) = <<>> => limit = DefaultLimit
     /\ (Caps(query) # <<>> /\ Caps(query)[1] > MaxLimit) => limit = DefaultLimit

(* C6: every query the live tool submits to the store carries a row limit   *)
(* of at most 50 rows.                                                      *)
C6_SubmittedMax50 ==
  jobs > 0 => (StatementLimit(sql) # NoLimit /\ StatementLimit(sql) <= DefaultLimit)

(* C7: the tool never raises to its caller; whenever the store rejects, with *)
(* an Error or with any other value, at job creation or at the fetch of the  *)
(* results, the tool returns an error envelope that has a classification and *)
(* a message.                                                                *)
C7_NeverRaises ==
  /\ pc # "raised"
  /\ Returned => result.type \in {"result", "array", "error"}
  /\ thrown.thrown =>
       /\ Returned
       /\ result.type = "error"
       /\ result.error \notin {<<>>, Undefined}
       /\ result.details \notin {<<>>, Undefined}

C7_Witness ==
  /\ Returned /\ thrown.thrown /\ ~ thrown.isError
  /\ thrown.at = "getQueryResults"
  /\ result.type = "error"

(* C8: a failure caused by a missing table is returned as the table-not-found *)
(* envelope, with a non-empty hint, never as the generic query error.         *)
C8_MissingTable ==
  (Returned /\ thrown.cause = "missing-table") =>
     /\ result.type = "error"
     /\ result.error = <<"Log Analytics table not found">>
     /\ result.hint \notin {<<>>, Undefined}

C8_Witness ==
  /\ Returned /\ thrown.cause = "missing-table"
  /\ includes(thrown.message, <<"permission">>)
  /\ result.error = <<"Log Analytics table not found">>

(* C9: a permission-denied failure is returned with the hint that names the  *)
(* roles to grant; every other failure that is not a missing table is        *)
(* returned as the generic query error with the raw message as details.      *)
C9_PermissionOrGeneric ==
  (Returned /\ thrown.thrown) =>
     /\ thrown.cause = "permission-denied" =>
          result.hint = <<"Grant roles/bigquery.jobUser and roles/logging.viewer">>
     /\ thrown.cause = "other" =>
          /\ result.error = <<"Error querying logs">>
          /\ thrown.isError => result.details = thrown.message

(* C10: an invocation submits at most one job, and a failure of the job is   *)
(* returned at once as an error envelope, without another job.               *)
C10_OneJobNoRetry ==
  /\ jobs <= 1
  /\ thrown.thrown => (Returned /\ result.type = "error" /\ jobs = 1)

C10_Witness ==
  Returned /\ thrown.thrown /\ thrown.at = "createQueryJob" /\ jobs = 1

(* C17: every successful result, of the live tool and of the mock tool, is   *)
(* an envelope whose rowCount is the number of rows it holds.                *)
C17_RowCountMatches ==
  (Returned /\ result.type # "error") =>
     /\ result.type = "result"
     /\ result.rowCount = Len(result.data)

(***************************************************************************)
(* Properties of the mock tool (MockSpec)                                  *)
(***************************************************************************)
MockReturned == pc = "done" /\ useMockData

Range(f) == {f[i] : i \in DOMAIN f}

NonIncreasing(logs) ==
  \A i, j \in DOMAIN logs : i < j => logs[i].timestamp >= logs[j].timestamp

(* C11: when the query text signals an error-severity filter, every record   *)
(* returned is of severity ERROR, the records are in non-increasing order of *)
(* timestamp, and there are at most as many as the cap the query requests,   *)
(* 50 when it requests none.                                                 *)
C11_ErrorsOnly ==
  (MockReturned /\ includes(toLowerCase(query), <<"error">>)) =>
     /\ \A i \in DOMAIN result.data : result.data[i].severity = "ERROR"
     /\ NonIncreasing(result.data)
     /\ Len(result.data) <=
          (IF Caps(query) = <<>> THEN DefaultLimit ELSE Caps(query)[1])

C11_Witness ==
  /\ MockReturned
  /\ includes(query, <<"warning">>) /\ includes(query, <<"error">>)
  /\ Caps(query) = <<3>>
  /\ Len(result.data) = 3

(* The signals of a query text *)
SignalsError(q) == includes(toLowerCase(q), <<"error">>)
SignalsWarning(q) == includes(toLowerCase(q), <<"warning">>)
Signals30Minutes(q) == includes(toLowerCase(q), <<"3", "0", " ", "minute">>)
Signals1Hour(q) == includes(toLowerCase(q), <<"1", " ", "hour">>)

(* The fixed ordered list of origins, and the first of them in the text *)
Origins == << <<"payment">>, <<"checkout">>, <<"auth">> >>

NoOrigin == <<>>

FirstOrigin(q) ==
  LET found == {i \in DOMAIN Origins : includes(toLowerCase(q), Origins[i])}
  IN IF found = {} THEN NoOrigin
     ELSE Origins[CHOOSE i \in found : \A j \in found : i <= j]

OfOrigin(log, origin) == origin = NoOrigin \/ includes(log.service, origin)

OfSeverity(log, q) ==
  IF SignalsError(q) THEN log.severity = "ERROR"
  ELSE IF SignalsWarning(q) THEN log.severity = "WARNING"
  ELSE TRUE

(* C12: one origin filter at most is applied, that of the first entry of the *)
(* list payment, checkout, auth that occurs anywhere in the text: every      *)
(* returned record's service contains it, and with no other filter and no    *)
(* cap in the text the result is all the records of that origin.             *)
C12_FirstOriginWins ==
  (MockReturned /\ FirstOrigin(query) # NoOrigin) =>
     /\ \A i \in DOMAIN result.data :
          includes(result.data[i].service, FirstOrigin(query))
     /\ (/\ ~ SignalsError(query) /\ ~ SignalsWarning(query)
         /\ ~ Signals30Minutes(query) /\ ~ Signals1Hour(query)
         /\ Caps(query) = <<>>)
        => Range(result.data) =
             {log \in Range(mockLogs) : OfOrigin(log, FirstOrigin(query))}

C12_Witness ==
  /\ MockReturned
  /\ query = <<"checkout", "payment">>
  /\ Len(result.data) = 3
  /\ \A i \in DOMAIN result.data : includes(result.data[i].service, <<"payment">>)

(* C13: a query with an origin signal and a 30-minute signal, without a       *)
(* severity signal and with a cap not below the number of matches, returns    *)
(* exactly the records of that origin whose timestamp is strictly newer than  *)
(* the time of the invocation minus 30 minutes.                               *)
C13_Expected(q, t) ==
  {log \in Range(mockLogs) :
     OfOrigin(log, FirstOrigin(q)) /\ log.timestamp > t - 30}

C13_OriginAnd30Minutes ==
  [][ (/\ pc = "invoked" /\ useMockData /\ pc' = "done"
       /\ FirstOrigin(query) # NoOrigin
       /\ Signals30Minutes(query)
       /\ ~ SignalsError(query) /\ ~ SignalsWarning(query)
       /\ limit' >= Cardinality(C13_Expected(query, now)))
      => (/\ Range(result'.data) = C13_Expected(query, now)
          /\ Len(result'.data) = Cardinality(C13_Expected(query, now))) ]_vars

C13_Witness ==
  /\ MockReturned
  /\ query = <<"checkout", "3", "0", " ", "minute">>
  /\ now = LogSpacing
  /\ Len(result.data) = 1

(* C15: with no recency signal and a cap not below the size of the corpus no  *)
(* matching record is dropped: "errors" returns every ERROR record, a query   *)
(* without any signal returns every record, in non-increasing timestamp order.*)
C15_Complete ==
  (/\ MockReturned
   /\ ~ Signals30Minutes(query) /\ ~ Signals1Hour(query)
   /\ limit >= Len(mockLogs)) =>
     /\ Range(result.data) =
          {log \in Range(mockLogs) :
             OfSeverity(log, query) /\ OfOrigin(log, FirstOrigin(query))}
     /\ Len(result.data) = Cardinality(Range(result.data))
     /\ NonIncreasing(result.data)
     /\ query = <<"error", "x">> =>
          Range(result.data) = {log \in Range(mockLogs) : log.severity = "ERROR"}
     /\ query = <<"x">> => result.data = mockLogs

C15_Witness ==
  /\ MockReturned
  /\ query = <<"error", "x">>
  /\ limit = DefaultLimit
  /\ Len(result.data) = 7

C14_SameTraces ==
  (MockReturned /\ history # <<>> /\ history[1].query = query) =>
     TraceIds(result.data) = history[1].traces

(* Length in minutes of the recency window the query text signals *)
Window(q) == IF Signals30Minutes(q) THEN 30 ELSE 60

(* C23: for a query with a 30-minute or 1-hour signal, the records a later   *)
(* invocation returns are among those the earlier invocation of the same     *)
(* query returned, and none is returned once the process has been up for     *)
(* the length of the window.                                                 *)
C23_WindowShrinks ==
  [][ (/\ pc = "invoked" /\ useMockData /\ pc' = "done"
       /\ (Signals30Minutes(query) \/ Signals1Hour(query)))
      => (/\ (history # <<>> /\ history[1].query = query) =>
                TraceIds(result'.data) \subseteq history[1].traces
          /\ now >= Window(query) => result'.data = <<>>) ]_vars

C23_Witness ==
  /\ MockReturned
  /\ query = <<"1", " ", "hour">>
  /\ history # <<>> /\ history[1].query = query
  /\ history[1].traces # {}
  /\ now >= Window(query)
  /\ result.data = <<>>

(***************************************************************************)
(* Properties of the server (HttpSpec)                                     *)
(***************************************************************************)
(* C16: the mode is mock exactly when USE_MOCK_DATA is 'true', and every     *)
(* selection of a tool by the flow and every /health response of the process *)
(* observes that one mode.                                                   *)
C16_OneMode ==
  /\ useMockData = (USE_MOCK_DATA = "true")
  /\ \A o \in observed : o.mode = ModeName(USE_MOCK_DATA = "true")
  /\ http.tool \in {"none", ModeName(USE_MOCK_DATA = "true")}

C16_Witness ==
  /\ USE_MOCK_DATA = "TRUE"
  /\ [by |-> "health", mode |-> "production"] \in observed
  /\ [by |-> "flow", mode |-> "production"] \in observed
  /\ http.phase = "generate"

(* C20: a POST /devAssistant whose data is a non-empty string is answered    *)
(* with a JSON object whose result field holds the assistant's text, also    *)
(* when ai.generate fails inside the flow.                                   *)
C20_ResultAlways ==
  (http.phase = "responded" /\ ~ InvalidData(http.data)) =>
     /\ http.status = 200
     /\ http.body.result # Undefined
     /\ http.body.error = Undefined

C20_Witness ==
  /\ http.phase = "responded"
  /\ http.data = [type |-> "string", text |-> <<"error", "x">>]
  /\ http.failed
  /\ http.status = 200
  /\ includes(http.body.result,
              <<"I encountered an error while processing your request">>)

(***************************************************************************)
(* Properties of the chat component (ChatSpec)                             *)
(***************************************************************************)
Last(seq) == seq[Len(seq)]

(* C21: a send of non-blank text appends exactly one user message and sets   *)
(* isLoading; a send of blank text changes nothing; while loading the only   *)
(* change of the messages is one assistant message appended as isLoading     *)
(* becomes false, and that does happen, whether the fetch resolves or        *)
(* rejects.                                                                   *)
C21_SendThenAnswer ==
  /\ [][ /\ calls' # calls =>
              IF Blank(input)
              THEN UNCHANGED <<input, messages, isLoading, error, request>>
              ELSE /\ messages' = Append(messages, Message("user", input))
                   /\ isLoading'
         /\ messages' # messages =>
              /\ Len(messages') = Len(messages) + 1
              /\ SubSeq(messages', 1, Len(messages)) = messages
              /\ IF isLoading
                 THEN Last(messages').role = "assistant" /\ ~ isLoading'
                 ELSE Last(messages').role = "user" /\ calls' # calls ]_vars
  /\ \A n \in 1..(2 * MaxCalls + 1) :
       (isLoading /\ Len(messages) = n) ~>
          (/\ ~ isLoading
           /\ Len(messages) = n + 1
           /\ messages[n].role = "user"
           /\ messages[n + 1].role = "assistant")

C21_Witness ==
  /\ ~ isLoading
  /\ Len(messages) = 5
  /\ messages[2] = Message("user", <<" ", "x">>)
  /\ messages[3] = Message("assistant", <<"x">>)
  /\ messages[4].role = "user"
  /\ messages[5] = Message("assistant",
                           <<"Error connecting to assistant", "Failed to fetch">>)
  /\ error = <<"Failed to fetch">>
====
